---- MODULE Spec2Model ----
(***************************************************************************)
(* A model of the narration-synchronised frame composition code of         *)
(* Code2Video: the typewriter renderer's timing, segmentation and          *)
(* per-frame resolution (typewriter_avatar_renderer.py), the keyword       *)
(* trigger analyser (semantic_animator.py) and the particle state of the   *)
(* premium renderer (premium_animated_renderer.py).                        *)
(*                                                                         *)
(* Strings are sequences of one-character strings, so that len(), split(), *)
(* strip(), lower(), slicing and the "in" substring test are computed.     *)
(* Python floats are modelled as exact rationals <<n, d>> in lowest terms. *)
(***************************************************************************)
EXTENDS Integers, Sequences, FiniteSets, TLC

\* ------------------------------------------------------------ rationals

RECURSIVE GCD(_, _)
GCD(a, b) == IF b = 0 THEN a ELSE GCD(b, a % b)

Abs(n) == IF n < 0 THEN -n ELSE n

\* The rational n/d (d # 0) in lowest terms with a positive denominator.
Rat(n, d) ==
    LET g == GCD(Abs(n), Abs(d))
        s == IF d < 0 THEN -1 ELSE 1
    IN  <<(s * n) \div g, (s * d) \div g>>

RInt(n) == <<n, 1>>
RAdd(a, b) == Rat(a[1] * b[2] + b[1] * a[2], a[2] * b[2])
RSub(a, b) == Rat(a[1] * b[2] - b[1] * a[2], a[2] * b[2])
RMul(a, b) == Rat(a[1] * b[1], a[2] * b[2])
RDiv(a, b) == Rat(a[1] * b[2], a[2] * b[1])
RLe(a, b) == a[1] * b[2] <= b[1] * a[2]
RLt(a, b) == a[1] * b[2] < b[1] * a[2]
RGe(a, b) == RLe(b, a)
RGt(a, b) == RLt(b, a)

\* Python's int(x) for a float x: truncation towards zero.
RTrunc(a) == IF a[1] >= 0 THEN a[1] \div a[2] ELSE -((-a[1]) \div a[2])

\* -------------------------------------------------------------- strings

Rep(c, n) == [i \in 1..n |-> c]

IsSpace(c) == c = " "

SetMin(S) == CHOOSE x \in S : \A y \in S : x <= y
SetMax(S) == CHOOSE x \in S : \A y \in S : x >= y

\* str.strip(): the leading and the trailing whitespace removed.
Strip(s) ==
    LET solid == {i \in 1..Len(s) : ~IsSpace(s[i])}
    IN  IF solid = {} THEN <<>> ELSE SubSeq(s, SetMin(solid), SetMax(solid))

\* str.split(): the maximal runs of non-whitespace characters, in order.
\* SplitFrom(s, i) is the list of the runs that start at or after position i.
RECURSIVE SplitFrom(_, _)
SplitFrom(s, i) ==
    LET solid == {j \in i..Len(s) : ~IsSpace(s[j])}
    IN  IF solid = {} THEN <<>>
        ELSE LET first == SetMin(solid)
                 gaps == {j \in first..Len(s) : IsSpace(s[j])}
                 last == IF gaps = {} THEN Len(s) ELSE SetMin(gaps) - 1
             IN  <<SubSeq(s, first, last)>> \o SplitFrom(s, last + 1)

Split(s) == SplitFrom(s, 1)

\* " ".join(words)
RECURSIVE Join(_)
Join(ws) ==
    IF ws = <<>> THEN <<>>
    ELSE IF Len(ws) = 1 THEN ws[1]
    ELSE ws[1] \o <<" ">> \o Join(Tail(ws))

\* ------------------------------------------- TypewriterAvatarRenderer

max_lines == 3
max_chars_per_line == 60
fade_duration == Rat(1, 2)

WordTiming(w, s, e, cp) ==
    [word |-> w, start_time |-> s, end_time |-> e, char_positions |-> cp]

LineData(ws, s, e, txt) ==
    [words |-> ws, start_time |-> s, end_time |-> e, text |-> txt,
     max_chars |-> Len(txt)]

\* _estimate_char_timings counting its characters from 1: the last offset is
\* the word's end.
EstimateCharTimingsFromOne(word, start_time, end_time) ==
    LET duration == RSub(end_time, start_time)
        char_count == Len(word)
    IN  [k \in 1..char_count |->
            RAdd(start_time, RDiv(RMul(duration, RInt(k)), RInt(char_count)))]

\* _estimate_char_timings: one offset per character of `word`,
\* start_time + duration * i / char_count for i = 0 .. char_count - 1.
EstimateCharTimings(word, start_time, end_time) ==
    LET duration == RSub(end_time, start_time)
        char_count == Len(word)
    IN  [k \in 1..char_count |->
            RAdd(start_time, RDiv(RMul(duration, RInt(k - 1)), RInt(char_count)))]

\* The loop of _estimate_word_timings over words[i..].
RECURSIVE EstimateLoop(_, _, _, _, _)
EstimateLoop(words, i, avg_word_duration, current_time, word_timings) ==
    IF i > Len(words) THEN word_timings
    ELSE LET word == words[i]
             word_duration == RMul(avg_word_duration, Rat(Len(word), 5))
             end_time == RAdd(current_time, word_duration)
         IN  EstimateLoop(words, i + 1, avg_word_duration, end_time,
                Append(word_timings,
                    WordTiming(word, current_time, end_time,
                        EstimateCharTimings(word, current_time, end_time))))

EstimateWordTimings(text, audio_duration) ==
    LET words == Split(text)
    IN  IF words = <<>> THEN <<>>
        ELSE EstimateLoop(words, 1, RDiv(audio_duration, RInt(Len(words))),
                          RInt(0), <<>>)

\* The Whisper branch of extract_word_timings: `transcript` is the sequence of
\* word_info records of all segments, in order.  The word is stripped, its
\* character timings are estimated from the word as Whisper gave it.
TranscriptWordTimings(transcript) ==
    [i \in 1..Len(transcript) |->
        WordTiming(Strip(transcript[i].word), transcript[i].start,
                   transcript[i].end,
                   EstimateCharTimings(transcript[i].word, transcript[i].start,
                                       transcript[i].end))]

\* extract_word_timings: Whisper when it can be imported, the estimate when the
\* import raises ImportError.
ExtractWordTimings(has_whisper, transcript, text, audio_duration) ==
    IF has_whisper THEN TranscriptWordTimings(transcript)
    ELSE EstimateWordTimings(text, audio_duration)

\* OrganizeLoop closing the line already when the text would reach the budget.
RECURSIVE OrganizeLoopEager(_, _, _)
OrganizeLoopEager(word_timings, i, acc) ==
    IF i > Len(word_timings) THEN acc
    ELSE LET wt == word_timings[i]
             test_text == IF acc.text # <<>>
                          THEN acc.text \o <<" ">> \o wt.word
                          ELSE wt.word
         IN  IF Len(test_text) >= max_chars_per_line /\ acc.words # <<>>
             THEN OrganizeLoopEager(word_timings, i + 1,
                    [lines |-> Append(acc.lines,
                                 LineData(acc.words, acc.start, wt.start_time,
                                          acc.text)),
                     words |-> <<wt>>,
                     text  |-> wt.word,
                     start |-> wt.start_time])
             ELSE OrganizeLoopEager(word_timings, i + 1,
                    [acc EXCEPT !.words = Append(acc.words, wt),
                                !.text = test_text])

\* OrganizeLoop with the separating space left out of the length test.
RECURSIVE OrganizeLoopNoSpace(_, _, _)
OrganizeLoopNoSpace(word_timings, i, acc) ==
    IF i > Len(word_timings) THEN acc
    ELSE LET wt == word_timings[i]
             test_text == IF acc.text # <<>>
                          THEN acc.text \o <<" ">> \o wt.word
                          ELSE wt.word
         IN  IF Len(acc.text \o wt.word) > max_chars_per_line /\ acc.words # <<>>
             THEN OrganizeLoopNoSpace(word_timings, i + 1,
                    [lines |-> Append(acc.lines,
                                 LineData(acc.words, acc.start, wt.start_time,
                                          acc.text)),
                     words |-> <<wt>>,
                     text  |-> wt.word,
                     start |-> wt.start_time])
             ELSE OrganizeLoopNoSpace(word_timings, i + 1,
                    [acc EXCEPT !.words = Append(acc.words, wt),
                                !.text = test_text])

\* The loop of organize_text_into_lines; acc holds lines, current_line_words,
\* current_line_text and current_line_start.
RECURSIVE OrganizeLoop(_, _, _)
OrganizeLoop(word_timings, i, acc) ==
    IF i > Len(word_timings) THEN acc
    ELSE LET wt == word_timings[i]
             test_text == IF acc.text # <<>>
                          THEN acc.text \o <<" ">> \o wt.word
                          ELSE wt.word
         IN  IF Len(test_text) > max_chars_per_line /\ acc.words # <<>>
             THEN OrganizeLoop(word_timings, i + 1,
                    [lines |-> Append(acc.lines,
                                 LineData(acc.words, acc.start, wt.start_time,
                                          acc.text)),
                     words |-> <<wt>>,
                     text  |-> wt.word,
                     start |-> wt.start_time])
             ELSE OrganizeLoop(word_timings, i + 1,
                    [acc EXCEPT !.words = Append(acc.words, wt),
                                !.text = test_text])

\* organize_text_into_lines without its "Add final line" step.
OrganizeWithoutFinalLine(word_timings) ==
    OrganizeLoop(word_timings, 1,
        [lines |-> <<>>, words |-> <<>>, text |-> <<>>, start |-> RInt(0)]).lines

OrganizeTextIntoLines(word_timings) ==
    LET acc == OrganizeLoop(word_timings, 1,
                  [lines |-> <<>>, words |-> <<>>, text |-> <<>>,
                   start |-> RInt(0)])
    IN  IF acc.words # <<>>
        THEN Append(acc.lines,
                LineData(acc.words, acc.start,
                         word_timings[Len(word_timings)].end_time, acc.text))
        ELSE acc.lines

\* The fade progress get_visible_lines_at_time gives a line it keeps.
FadeProgress(line, time) ==
    IF RLt(time, line.start_time)
    THEN RDiv(RSub(time, RSub(line.start_time, fade_duration)), fade_duration)
    ELSE IF RGt(time, line.end_time)
    THEN RSub(RInt(1), RDiv(RSub(time, line.end_time), fade_duration))
    ELSE RInt(1)

\* LineInWindow without the "continue" for a line that has faded out.
LineInWindowNoSkip(line, time) ==
    RGe(time, RSub(line.start_time, fade_duration))

\* A line passes the tests of get_visible_lines_at_time's loop body.
LineInWindow(line, time) ==
    /\ RGe(time, RSub(line.start_time, fade_duration))
    /\ ~(RGt(time, line.end_time) /\ RLe(FadeProgress(line, time), RInt(0)))

\* The loop of get_visible_lines_at_time: entries are <<line index, fade>>.
RECURSIVE VisibleLoop(_, _, _, _)
VisibleLoop(lns, i, time, visible_lines) ==
    IF i > Len(lns) THEN visible_lines
    ELSE IF LineInWindow(lns[i], time)
         THEN LET v == Append(visible_lines,
                          [index |-> i, fade_progress |-> FadeProgress(lns[i], time)])
              IN  IF Len(v) >= max_lines THEN v
                  ELSE VisibleLoop(lns, i + 1, time, v)
         ELSE VisibleLoop(lns, i + 1, time, visible_lines)

GetVisibleLinesAtTime(lns, time) == VisibleLoop(lns, 1, time, <<>>)

\* The characters of one word get_typing_progress counts at `time`: the loop
\* over char_positions stops at the first one that lies after `time`.
CharsTyped(char_positions, time) ==
    LET later == {k \in 1..Len(char_positions) : ~RGe(time, char_positions[k])}
    IN  IF later = {} THEN Len(char_positions) ELSE SetMin(later) - 1

WordTyped(word, time) ==
    IF RGe(time, word.end_time) THEN Len(word.word)
    ELSE IF RGe(time, word.start_time) THEN CharsTyped(word.char_positions, time)
    ELSE 0

RECURSIVE TypedChars(_, _, _)
TypedChars(words, i, time) ==
    IF i > Len(words) THEN 0
    ELSE WordTyped(words[i], time) + TypedChars(words, i + 1, time)

Min(a, b) == IF a <= b THEN a ELSE b

GetTypingProgress(line, time) ==
    IF RLt(time, line.start_time) THEN 0
    ELSE Min(TypedChars(line.words, 1, time), Len(line.text))

\* The loop of get_bold_positions: 0-based character indices.
RECURSIVE BoldLoop(_, _, _, _)
BoldLoop(words, i, char_index, time) ==
    IF i > Len(words) THEN <<>>
    ELSE LET word == words[i]
             word_chars == Len(word.word)
             here == IF RGe(time, word.start_time) /\ RLe(time, word.end_time)
                     THEN [k \in 1..word_chars |-> char_index + k - 1]
                     ELSE <<>>
         IN  here \o BoldLoop(words, i + 1, char_index + word_chars + 1, time)

GetBoldPositions(line, time) == BoldLoop(line.words, 1, 0, time)

\* What render_frame(time, lines) computes before it draws: for each visible
\* line its fade, its typing progress, its bold positions and the text shown.
RenderFrame(time, lns) ==
    LET visible_lines == GetVisibleLinesAtTime(lns, time)
    IN  [time |-> time,
         drawn |-> [n \in 1..Len(visible_lines) |->
            LET line == lns[visible_lines[n].index]
                typing_progress == GetTypingProgress(line, time)
            IN  [index |-> visible_lines[n].index,
                 fade_progress |-> visible_lines[n].fade_progress,
                 typing_progress |-> typing_progress,
                 bold_positions |-> GetBoldPositions(line, time),
                 display_text |-> SubSeq(line.text, 1, typing_progress)]]]

fps == 30

\* create_video's "Calculate video duration": max() of no lines raises
\* ValueError, otherwise total_frames = int(total_duration * fps).
SeqMaxEnd(lns) ==
    CHOOSE e \in {lns[i].end_time : i \in 1..Len(lns)} :
        \A i \in 1..Len(lns) : RLe(lns[i].end_time, e)

TotalFrames(lns) == RTrunc(RMul(RAdd(SeqMaxEnd(lns), fade_duration), RInt(fps)))

\* ------------------------------------------------------ SemanticAnimator

animation_duration == RInt(2)

\* animation_mappings, in the dict's insertion order.
animation_mappings == <<
    [type |-> "function", animation |-> "function_call",
     keywords |-> <<<<"f", "u", "n", "c", "t", "i", "o", "n">>,
                    <<"d", "e", "f", " ">>,
                    <<"m", "e", "t", "h", "o", "d">>,
                    <<"c", "a", "l", "l">>,
                    <<"i", "n", "v", "o", "k", "e">>>>],
    [type |-> "loop", animation |-> "loop_spin",
     keywords |-> <<<<"l", "o", "o", "p">>,
                    <<"f", "o", "r", " ">>,
                    <<"w", "h", "i", "l", "e", " ">>,
                    <<"i", "t", "e", "r", "a", "t", "e">>,
                    <<"r", "e", "p", "e", "a", "t">>>>],
    [type |-> "condition", animation |-> "condition_check",
     keywords |-> <<<<"i", "f", " ">>,
                    <<"e", "l", "s", "e">>,
                    <<"c", "o", "n", "d", "i", "t", "i", "o", "n">>,
                    <<"c", "h", "e", "c", "k">>,
                    <<"c", "o", "m", "p", "a", "r", "e">>>>],
    [type |-> "recursion", animation |-> "recursion_tree",
     keywords |-> <<<<"r", "e", "c", "u", "r", "s", "i", "o", "n">>,
                    <<"r", "e", "c", "u", "r", "s", "i", "v", "e">>,
                    <<"c", "a", "l", "l", " ", "i", "t", "s", "e", "l", "f">>,
                    <<"b", "a", "s", "e", " ", "c", "a", "s", "e">>>>],
    [type |-> "array", animation |-> "array_highlight",
     keywords |-> <<<<"a", "r", "r", "a", "y">>,
                    <<"l", "i", "s", "t">>,
                    <<"e", "l", "e", "m", "e", "n", "t">>,
                    <<"i", "n", "d", "e", "x">>,
                    <<"p", "o", "s", "i", "t", "i", "o", "n">>>>],
    [type |-> "swap", animation |-> "swap_values",
     keywords |-> <<<<"s", "w", "a", "p">>,
                    <<"e", "x", "c", "h", "a", "n", "g", "e">>,
                    <<"s", "w", "i", "t", "c", "h">>,
                    <<"i", "n", "t", "e", "r", "c", "h", "a", "n", "g", "e">>>>],
    [type |-> "sort", animation |-> "sort_animation",
     keywords |-> <<<<"s", "o", "r", "t">>,
                    <<"o", "r", "d", "e", "r">>,
                    <<"a", "r", "r", "a", "n", "g", "e">>,
                    <<"b", "u", "b", "b", "l", "e">>,
                    <<"q", "u", "i", "c", "k">>>>],
    [type |-> "search", animation |-> "search_scan",
     keywords |-> <<<<"s", "e", "a", "r", "c", "h">>,
                    <<"f", "i", "n", "d">>,
                    <<"l", "o", "o", "k", "u", "p">>,
                    <<"b", "i", "n", "a", "r", "y">>,
                    <<"l", "i", "n", "e", "a", "r">>>>],
    [type |-> "stack", animation |-> "stack_push_pop",
     keywords |-> <<<<"s", "t", "a", "c", "k">>,
                    <<"p", "u", "s", "h">>,
                    <<"p", "o", "p">>,
                    <<"L", "I", "F", "O">>,
                    <<"l", "a", "s", "t", " ", "i", "n">>>>],
    [type |-> "queue", animation |-> "queue_flow",
     keywords |-> <<<<"q", "u", "e", "u", "e">>,
                    <<"e", "n", "q", "u", "e", "u", "e">>,
                    <<"d", "e", "q", "u", "e", "u", "e">>,
                    <<"F", "I", "F", "O">>,
                    <<"f", "i", "r", "s", "t", " ", "i", "n">>>>],
    [type |-> "pointer", animation |-> "pointer_move",
     keywords |-> <<<<"p", "o", "i", "n", "t", "e", "r">>,
                    <<"r", "e", "f", "e", "r", "e", "n", "c", "e">>,
                    <<"a", "d", "d", "r", "e", "s", "s">>,
                    <<"m", "e", "m", "o", "r", "y">>>>],
    [type |-> "error", animation |-> "error_shake",
     keywords |-> <<<<"e", "r", "r", "o", "r">>,
                    <<"e", "x", "c", "e", "p", "t", "i", "o", "n">>,
                    <<"b", "u", "g">>,
                    <<"c", "r", "a", "s", "h">>,
                    <<"f", "a", "i", "l">>>>],
    [type |-> "success", animation |-> "success_check",
     keywords |-> <<<<"s", "u", "c", "c", "e", "s", "s">>,
                    <<"c", "o", "r", "r", "e", "c", "t">>,
                    <<"w", "o", "r", "k", "i", "n", "g">>,
                    <<"s", "o", "l", "v", "e", "d">>,
                    <<"c", "o", "m", "p", "l", "e", "t", "e">>>>]>>

\* The animation names create_animation_overlay dispatches on.
OverlayAnimations ==
    {"function_call", "loop_spin", "condition_check", "recursion_tree",
     "array_highlight", "swap_values", "sort_animation", "search_scan",
     "stack_push_pop", "queue_flow", "pointer_move", "error_shake",
     "success_check"}

\* animation_positions for a frame of the given width.
animation_positions(width) ==
    <<<<width - 250, 100>>, <<width - 250, 300>>, <<width - 250, 500>>,
      <<100, 100>>, <<100, 300>>, <<100, 500>>,
      <<width \div 2 - 100, 100>>, <<width \div 2 - 100, 500>>>>

UpperCase == <<"A", "B", "C", "D", "E", "F", "G", "H", "I", "J", "K", "L", "M",
               "N", "O", "P", "Q", "R", "S", "T", "U", "V", "W", "X", "Y", "Z">>
LowerCase == <<"a", "b", "c", "d", "e", "f", "g", "h", "i", "j", "k", "l", "m",
               "n", "o", "p", "q", "r", "s", "t", "u", "v", "w", "x", "y", "z">>

\* str.lower()
LowerChar(c) ==
    IF \E k \in 1..26 : UpperCase[k] = c
    THEN LowerCase[CHOOSE k \in 1..26 : UpperCase[k] = c]
    ELSE c

Lower(s) == [i \in 1..Len(s) |-> LowerChar(s[i])]

\* Python's "sub in s" for strings.
Contains(sub, s) ==
    \E i \in 0..(Len(s) - Len(sub)) : SubSeq(s, i + 1, i + Len(sub)) = sub

\* words[j:j+10] for j = 0, 10, 20, ...
WordGroups(words) ==
    [g \in 1..((Len(words) + 9) \div 10) |->
        SubSeq(words, 10 * (g - 1) + 1, Min(10 * g, Len(words)))]

Max(a, b) == IF a >= b THEN a ELSE b

\* The first keyword of a mapping found in the segment's text, 0 if none: the
\* inner loop of analyze_narration with its break.
FirstKeyword(mapping, segment_text) ==
    LET hits == {k \in 1..Len(mapping.keywords) :
                    Contains(Lower(mapping.keywords[k]), Lower(segment_text))}
    IN  IF hits = {} THEN 0 ELSE SetMin(hits)

\* The triggers one segment adds: the loop over animation_mappings from
\* mapping m on.  The break leaves the keyword loop only.
RECURSIVE SegmentTriggers(_, _, _)
SegmentTriggers(m, segment_text, start_time) ==
    IF m > Len(animation_mappings) THEN <<>>
    ELSE LET k == FirstKeyword(animation_mappings[m], segment_text)
             rest == SegmentTriggers(m + 1, segment_text, start_time)
         IN  IF k = 0 THEN rest
             ELSE <<[type |-> animation_mappings[m].type,
                     start_time |-> start_time,
                     duration |-> animation_duration,
                     text |-> segment_text,
                     keyword |-> animation_mappings[m].keywords[k]]>> \o rest

RECURSIVE AnalyzeLoop(_, _, _)
AnalyzeLoop(groups, i, segment_duration) ==
    IF i > Len(groups) THEN <<>>
    ELSE SegmentTriggers(1, Join(groups[i]), RMul(RInt(i - 1), segment_duration))
            \o AnalyzeLoop(groups, i + 1, segment_duration)

AnalyzeNarration(narration_text, duration) ==
    IF narration_text = <<>> THEN <<>>
    ELSE LET words == Split(narration_text)
             total_words == Len(words)
             segment_duration == RDiv(duration, RInt(Max(1, total_words \div 10)))
         IN  AnalyzeLoop(WordGroups(words), 1, segment_duration)

NoOverlay == [animation |-> "None"]

\* create_animation_overlay: None outside the trigger's time window and for a
\* type that is none of the animation names it knows.
CreateAnimationOverlay(trigger, time) ==
    IF RLt(time, trigger.start_time)
          \/ RGt(time, RAdd(trigger.start_time, trigger.duration))
    THEN NoOverlay
    ELSE IF trigger.type \in OverlayAnimations
         THEN [animation |-> trigger.type,
               progress |-> RDiv(RSub(time, trigger.start_time), trigger.duration)]
         ELSE NoOverlay

\* apply_animations_to_frame: the overlays pasted, in order, each with the
\* trigger's index (from 0) and its position.
RECURSIVE ApplyLoop(_, _, _, _)
ApplyLoop(trigs, i, time, width) ==
    IF i > Len(trigs) THEN <<>>
    ELSE LET animation == CreateAnimationOverlay(trigs[i], time)
             pos_index == (i - 1) % Len(animation_positions(width))
             rest == ApplyLoop(trigs, i + 1, time, width)
         IN  IF animation # NoOverlay
             THEN <<[trigger |-> i - 1, overlay |-> animation,
                     pos_index |-> pos_index,
                     position |-> animation_positions(width)[pos_index + 1]]>>
                  \o rest
             ELSE rest

ApplyAnimationsToFrame(trigs, time, width) ==
    [time |-> time, pasted |-> ApplyLoop(trigs, 1, time, width)]

\* ------------------------------------------ PremiumAnimatedVideoRenderer

premium_width == 1920
premium_height == 1080
premium_fps == 30

\* One particle after the position update and the wrap of _draw_particles.
\* A particle's size and alpha are set once by _init_particles and never
\* change, so the state keeps its position and velocity only.
MoveParticle(p) ==
    LET x1 == RAdd(p.x, p.vx)
        y1 == RAdd(p.y, p.vy)
        x2 == IF RLt(x1, RInt(0)) THEN RInt(premium_width)
              ELSE IF RGt(x1, RInt(premium_width)) THEN RInt(0) ELSE x1
        y2 == IF RLt(y1, RInt(0)) THEN RInt(premium_height)
              ELSE IF RGt(y1, RInt(premium_height)) THEN RInt(0) ELSE y1
    IN  [p EXCEPT !.x = x2, !.y = y2]

\* self.particles after _draw_particles.
DrawParticlesState(ps) == [k \in 1..Len(ps) |-> MoveParticle(ps[k])]

\* What _draw_particles(draw, time) paints: per particle the pixel it is
\* drawn at and the argument of the sine of its pulse, time * 2 + x * 0.01.
DrawParticlesPaint(ps, time) ==
    [k \in 1..Len(ps) |->
        LET p == MoveParticle(ps[k])
        IN  [x |-> RTrunc(p.x), y |-> RTrunc(p.y),
             pulse_arg |-> RAdd(RMul(time, RInt(2)), RMul(p.x, Rat(1, 100)))]]

\* The part of _create_premium_frame(..., time, frame_num) that the particles
\* decide.
CreatePremiumFrame(ps, frame_num) ==
    LET time == RMul(RInt(frame_num), Rat(1, premium_fps))
    IN  [time |-> time, particles |-> DrawParticlesPaint(ps, time)]

\* ---------------------------------------------------- AvatarVideoRenderer

avatar_width == 1280
avatar_size == 140
avatar_x == 50

\* The segments _split_narration_into_segments makes for no narration; "*"
\* stands for the emoji that ends each text.
DefaultSegments ==
    <<[text |-> <<"H", "i", "!", " ", "I", "'", "m", " ", "y", "o", "u", "r",
                  " ", "A", "I", " ", "a", "s", "s", "i", "s", "t", "a", "n",
                  "t", "!", " ", "*">>,
       start |-> RInt(0), duration |-> RInt(2)],
      [text |-> <<"L", "e", "t", " ", "m", "e", " ", "e", "x", "p", "l", "a",
                  "i", "n", " ", "t", "h", "i", "s", " ", "c", "o", "d", "e",
                  " ", "s", "t", "e", "p", " ", "b", "y", " ", "s", "t", "e",
                  "p", "!", " ", "*">>,
       start |-> RInt(2), duration |-> RInt(2)],
      [text |-> <<"T", "h", "i", "s", " ", "i", "s", " ", "r", "e", "a", "l",
                  "l", "y", " ", "i", "n", "t", "e", "r", "e", "s", "t", "i",
                  "n", "g", " ", "c", "o", "d", "e", "!", " ", "*">>,
       start |-> RInt(4), duration |-> RInt(2)],
      [text |-> <<"L", "e", "t", " ", "m", "e", " ", "b", "r", "e", "a", "k",
                  " ", "i", "t", " ", "d", "o", "w", "n", " ", "f", "o", "r",
                  " ", "y", "o", "u", "!", " ", "*">>,
       start |-> RInt(6), duration |-> RInt(2)],
      [text |-> <<"T", "h", "a", "t", "'", "s", " ", "h", "o", "w", " ", "i",
                  "t", " ", "w", "o", "r", "k", "s", "!", " ", "*">>,
       start |-> RInt(8), duration |-> RInt(2)]>>

RAbs(a) == IF RLt(a, RInt(0)) THEN RSub(RInt(0), a) ELSE a

\* The loop of _split_narration_into_segments from word i (0-based) on: it
\* stops after the segment with which current_time reaches the duration.
RECURSIVE SplitLoop(_, _, _, _, _, _, _)
SplitLoop(words, i, words_per_second, words_per_segment, current_time, duration, segments) ==
    IF i >= Len(words) THEN segments
    ELSE LET segment_words == SubSeq(words, i + 1,
                                     Min(i + words_per_segment, Len(words)))
             actual_duration == RDiv(RInt(Len(segment_words)), words_per_second)
             added == Append(segments, [text |-> Join(segment_words),
                                        start |-> current_time,
                                        duration |-> actual_duration])
             next_time == RAdd(current_time, actual_duration)
         IN  IF RGe(next_time, duration) THEN added
             ELSE SplitLoop(words, i + words_per_segment, words_per_second,
                            words_per_segment, next_time, duration, added)

\* "Adjust the last segment to fit exactly within duration".
ClipLastSegment(segments, duration) ==
    LET n == Len(segments)
    IN  IF n > 0 /\ RGt(RAdd(segments[n].start, segments[n].duration), duration)
        THEN [segments EXCEPT ![n].duration = RSub(duration, segments[n].start)]
        ELSE segments

\* _split_narration_into_segments for a duration > 0.
SplitNarrationIntoSegments(narration_text, duration) ==
    IF narration_text = <<>> THEN DefaultSegments
    ELSE LET words == Split(narration_text)
             total_words == Len(words)
             estimated_duration == RDiv(RInt(total_words), Rat(5, 2))
             words_per_second ==
                 IF RGt(RAbs(RSub(estimated_duration, duration)), RInt(2))
                 THEN RDiv(RInt(total_words), duration)
                 ELSE Rat(5, 2)
             words_per_segment ==
                 Max(2, RTrunc(RMul(words_per_second, Rat(6, 5))))
         IN  ClipLastSegment(
                SplitLoop(words, 0, words_per_second, words_per_segment, RInt(0),
                          duration, <<>>),
                duration)

\* The index (0-based) of the first segment whose interval holds `time`, 0
\* when none does: the loop with break of _draw_code_area and
\* _draw_karaoke_text.
CurrentSegmentIndex(segments, time) ==
    LET hits == {i \in 1..Len(segments) :
                    /\ RLe(segments[i].start, time)
                    /\ RLe(time, RAdd(segments[i].start, segments[i].duration))}
    IN  IF hits = {} THEN 0 ELSE SetMin(hits) - 1

\* total_lines_to_show of _draw_code_area for a code of n_lines lines.
TotalLinesToShow(n_lines, segments, time) ==
    IF Len(segments) > 0
    THEN LET lines_per_segment == Max(1, n_lines \div Len(segments))
         IN  Min(n_lines,
                 (CurrentSegmentIndex(segments, time) + 1) * lines_per_segment)
    ELSE Min(n_lines, RTrunc(RMul(time, Rat(67, 100))) + 1)

\* bubble_width of _draw_karaoke_text for a frame of the given width.
BubbleWidth(width) ==
    LET code_area_start == width \div 2 + 30
        bubble_x == avatar_x + avatar_size + 20
    IN  IF bubble_x + 380 > code_area_start - 20
        THEN IF code_area_start - bubble_x - 20 < 300 THEN 380
             ELSE code_area_start - bubble_x - 20
        ELSE 380

\* draw.textbbox's width of a text in a font whose characters are all
\* glyph_width wide.
TextWidth(txt, glyph_width) == glyph_width * Len(txt)

\* The words of the current segment and of the three after it.
RECURSIVE CollectWords(_, _, _)
CollectWords(segments, current_segment_index, i) ==
    IF i >= 4 THEN <<>>
    ELSE (IF current_segment_index + i < Len(segments)
          THEN Split(segments[current_segment_index + i + 1].text)
          ELSE <<>>)
         \o CollectWords(segments, current_segment_index, i + 1)

\* current_word_position = max(0, min(int(time / 4.5), len(all_words) - 1))
CurrentWordPosition(all_words, time) ==
    Max(0, Min(RTrunc(RDiv(time, Rat(9, 2))), Len(all_words) - 1))

\* _draw_karaoke_line_v2: the words of one line, each with the index it is
\* given (start_word_index + i), its place among all_words, and whether it
\* is drawn bold as the current word.
DrawKaraokeLine(line_words, first, line_count, start_word_index, current_word_position) ==
    [i \in 1..Len(line_words) |->
        [word |-> line_words[i],
         line |-> line_count,
         place |-> first + i - 1,
         word_index |-> start_word_index + i - 1,
         bold |-> start_word_index + i - 1 = current_word_position]]

\* The word loop of _draw_karaoke_text from word i (1-based) on; acc holds
\* line_words, the place of its first word, line_count, word_index and the
\* words drawn.  After "line_words = [word]" the statement
\* "word_index += len(line_words) - 1" adds 0.
RECURSIVE KaraokeLoop(_, _, _, _, _, _)
KaraokeLoop(all_words, i, max_width, glyph_width, current_word_position, acc) ==
    IF i > Len(all_words)
    THEN IF acc.line_words # <<>> /\ acc.line_count < 4
         THEN acc.drawn \o DrawKaraokeLine(acc.line_words, acc.first,
                                           acc.line_count, acc.word_index,
                                           current_word_position)
         ELSE acc.drawn
    ELSE LET word == all_words[i]
             test_line == Join(Append(acc.line_words, word))
         IN  IF TextWidth(test_line, glyph_width) > max_width
                   /\ acc.line_words # <<>>
             THEN LET drawn == acc.drawn \o
                                  DrawKaraokeLine(acc.line_words, acc.first,
                                                  acc.line_count, acc.word_index,
                                                  current_word_position)
                      line_words == <<word>>
                      line_count == acc.line_count + 1
                      word_index == acc.word_index + (Len(line_words) - 1)
                  IN  IF line_count >= 4 THEN drawn
                      ELSE KaraokeLoop(all_words, i + 1, max_width, glyph_width,
                                       current_word_position,
                                       [line_words |-> line_words,
                                        first |-> i - 1,
                                        line_count |-> line_count,
                                        word_index |-> word_index,
                                        drawn |-> drawn])
             ELSE KaraokeLoop(all_words, i + 1, max_width, glyph_width,
                              current_word_position,
                              [acc EXCEPT !.line_words = Append(@, word)])

\* _draw_karaoke_text: the words it draws.
DrawKaraokeText(segments, time, width, glyph_width) ==
    LET all_words == CollectWords(segments, CurrentSegmentIndex(segments, time), 0)
        current_word_position == CurrentWordPosition(all_words, time)
    IN  [all_words |-> all_words,
         current_word_position |-> current_word_position,
         drawn |-> KaraokeLoop(all_words, 1, BubbleWidth(width) - 40, glyph_width,
                               current_word_position,
                               [line_words |-> <<>>, first |-> 0,
                                line_count |-> 0, word_index |-> 0,
                                drawn |-> <<>>])]

\* _create_avatar_frame: the code lines shown and the caption drawn.
CreateAvatarFrame(n_lines, segments, time, width, glyph_width) ==
    [time |-> time,
     total_lines_to_show |-> TotalLinesToShow(n_lines, segments, time),
     karaoke |-> DrawKaraokeText(segments, time, width, glyph_width)]

\* -------------------------------------------------------------- Code2Vid

\* create_video's output_name: the snippet's name, or the default for an
\* empty one (language "Python").
OutputName(name) == IF name = "" THEN "code_explanation_python" ELSE name

\* Code2Vid.create_video(code, language, difficulty_level, output_name=name)
\* for one snippet: the explanation, the speech and the video are made in
\* this order; an exception of any of the three stages leaves as
\* Exception("Video creation failed: ..."), otherwise the paths of the files
\* (video_style is "simple") and the explanation's title and the duration
\* estimated from its script are returned.
CreateVideo(snippet) ==
    IF snippet.fails # "none"
    THEN [ok |-> FALSE, message |-> <<"Video creation failed", snippet.fails>>]
    ELSE [ok |-> TRUE,
          value |-> [explanation |-> <<"output", OutputName(snippet.name),
                                       "_explanation.json">>,
                     audio |-> <<"output", OutputName(snippet.name),
                                 "_narration.wav">>,
                     video |-> <<"output", OutputName(snippet.name),
                                 "_simple.mp4">>,
                     title |-> <<"title", snippet.code>>,
                     duration |-> <<"duration", snippet.code>>]]

\* results[name] = value
Put(dict, name, value) ==
    [k \in (DOMAIN dict) \cup {name} |-> IF k = name THEN value ELSE dict[k]]

\* The loop body without the except clause's results[name] = {"error": ...}.
BatchStepNoErrorEntry(dict, snippet) ==
    LET made == CreateVideo(snippet)
    IN  IF made.ok THEN Put(dict, snippet.name, made.value) ELSE dict

\* The body of create_batch_videos' loop for one snippet.
BatchStep(dict, snippet) ==
    LET made == CreateVideo(snippet)
    IN  IF made.ok THEN Put(dict, snippet.name, made.value)
        ELSE Put(dict, snippet.name, [error |-> made.message])

\* ---------------------------------------------------------- render jobs

\* int(x) for x >= 0, and the ceiling the frame count is compared with.
RCeil(a) == IF a[1] % a[2] = 0 THEN a[1] \div a[2] ELSE RTrunc(a) + 1

\* total_frames = int(duration * self.fps)
FrameCount(duration, rate) == RTrunc(RMul(duration, RInt(rate)))

\* AvatarVideoRenderer: total_frames = min(60, int(duration * self.fps))
avatar_frame_cap == 60

AvatarFrameCount(duration, rate) == Min(avatar_frame_cap, FrameCount(duration, rate))

\* The time the frame loop passes to the frame builder for frame k:
\* frame_idx * frame_duration with frame_duration = 1.0 / fps in the
\* typewriter renderer, frame_num / fps in the animated renderer, and
\* progress * duration with progress = i / (total_frames - 1) in the avatar
\* renderer (total_frames >= 2 there).
FrameTime(kind, k, rate, duration, total) ==
    IF kind = "avatar"
    THEN RMul(Rat(k, total - 1), duration)
    ELSE RMul(RInt(k), Rat(1, rate))

\* The time AvatarVideoRenderer.create_animated_video passes to
\* apply_animations_to_frame for frame k: i * frame_duration with
\* frame_duration = duration / total_frames.
OverlayTime(k, duration, total) == RMul(RInt(k), RDiv(duration, RInt(total)))

\* The renderer's constructor.  TypewriterAvatarRenderer loads the avatar
\* (Image.open if the file exists, a placeholder otherwise) and then the
\* font with ImageFont.truetype, outside any try.  The other two renderers
\* load nothing when they are constructed.
ConstructRenderer(kind, assets) ==
    IF kind = "typewriter"
    THEN IF assets.avatar_file = "unreadable"
         THEN [error |-> "OSError", avatar_img |-> "none", font |-> "none"]
         ELSE IF ~assets.font_present
         THEN [error |-> "OSError",
               avatar_img |-> IF assets.avatar_file = "ok" THEN "file"
                              ELSE "placeholder",
               font |-> "none"]
         ELSE [error |-> "",
               avatar_img |-> IF assets.avatar_file = "ok" THEN "file"
                              ELSE "placeholder",
               font |-> "Helvetica"]
    ELSE [error |-> "", avatar_img |-> "none", font |-> "none"]

\* The assets the frame builders of the animated and the avatar renderer
\* resolve: truetype inside try, load_default in the except;
\* _load_avatar_image returns None (the drawn emoji avatar is used) when no
\* file can be opened.
FrameAssets(kind, assets, built) ==
    IF kind = "typewriter" THEN built
    ELSE [error |-> "",
          avatar_img |-> IF kind = "avatar"
                         THEN IF assets.avatar_file = "ok" THEN "file" ELSE "emoji"
                         ELSE "none",
          font |-> IF assets.font_present THEN "system" ELSE "default"]

\* FramePattern with the numbering begun at frame 1.
FramePatternFromOne(files) ==
    [k \in 1..(Len(files) - 1) |-> [index |-> k, job |-> files[k + 1]]]

\* What "-i temp_frames/frame_%06d.png" makes ffmpeg read: the files of the
\* directory from frame 0 on, whoever wrote them.
FramePattern(files) == [k \in 1..Len(files) |-> [index |-> k - 1, job |-> files[k]]]

\* The file frame_<k> saved into a directory whose files are given by the
\* job that wrote each: an existing file is overwritten.
SaveFrame(files, k, j) ==
    IF k + 1 <= Len(files) THEN [files EXCEPT ![k + 1] = j] ELSE Append(files, j)

\* Whether the renderer runs ffmpeg a second time to add the audio.
HasMuxStep(kind) == kind = "animated"

\* The exception a failed subprocess.run(check=True) leaves the renderer as:
\* create_animated_video wraps it, the other two let it through.
EncoderError(kind) ==
    IF kind = "animated" THEN "Exception" ELSE "CalledProcessError"

\* VideoRenderer's entry points catch every exception of the renderer they
\* try first and go on with the moviepy rendering.
HasFallback(entry) == entry \in {"create_video", "create_typewriter_video"}

\* How the moviepy rendering of an entry point ends: the output path, or an
\* Exception that wraps the cause.
FallbackAlwaysReturns(ok) == "returned"

FallbackOutcome(ok) == IF ok THEN "returned" ELSE "raised"

\* ---------------------------------------------------------------- state

VARIABLES
    has_whisper,     \* whether "import whisper" succeeds
    transcript,      \* Whisper's word_info records (word, start, end)
    text,            \* the narration text
    audio_duration,  \* what _get_audio_duration returns
    pc,              \* how far the pipeline has come
    word_timings,    \* extract_word_timings' result
    lines,           \* organize_text_into_lines' result
    frame,           \* what the last render_frame call computed
    total_frames,    \* create_video's frame count
    error,           \* the exception create_video raised, "" while none
    triggers,        \* analyze_narration's result
    overlays,        \* what the last apply_animations_to_frame call pasted
    particles,       \* PremiumAnimatedVideoRenderer.particles
    premium_frames,  \* total_frames of the premium renderer's jobs
    job,             \* how many render jobs have begun
    video,           \* the frames of the current job, in order
    previous,        \* the frames of the job before
    entry,           \* the entry point the caller used
    kind,            \* the renderer that does the job
    rate,            \* the renderer's fps
    assets,          \* the avatar file and the system font on this machine
    resolved,        \* the avatar image and the font the renderer uses
    fs,              \* temp_frames, temp_video.mp4, mkdtemp directories
    written,         \* frames of this job saved so far
    frame_times,     \* the time each frame of this job was built for
    encoder_calls,   \* this job's ffmpeg runs, in order
    outcome,         \* "returned" or "raised" once the entry point is left
    failed,          \* the stages that failed in this job
    overlay_times,   \* the time each frame's animation overlay was built for
    code_lines,      \* the number of lines of the code shown
    font_width,      \* the width of one character of the caption font
    speech_segments, \* what _split_narration_into_segments returned
    avatar_frame,    \* what the last _create_avatar_frame call drew
    code_snippets,   \* the snippets given to create_batch_videos, in order
    results,         \* create_batch_videos' results dictionary
    batch_pos        \* how many snippets the batch loop has taken

inputs == <<has_whisper, transcript, text, audio_duration>>
typewriter == <<word_timings, lines, frame, total_frames, error>>
animator == <<triggers, overlays>>
premium == <<particles, premium_frames, job, video, previous>>
render == <<entry, kind, rate, assets, resolved, fs, written, frame_times,
            encoder_calls, outcome, failed, overlay_times>>
avatar == <<code_lines, font_width, speech_segments, avatar_frame>>
batch == <<code_snippets, results, batch_pos>>

vars == <<inputs, pc, typewriter, animator, premium, render, avatar, batch>>

\* ---------------------------------------------------------------- inputs

MaxWords == 4
MaxTWords == 2
MaxTick == 9
MaxNarr == 2
MaxAnimTick == 6
MaxParticles == 2
MaxFrames == 3
MaxJobs == 2
MaxRate == 3
MaxRenderJobs == 2
MaxTriggers == 9
MaxAvatarWords == 6
MaxAvatarTick == 10
MaxCodeLines == 4
MaxSnippets == 3

\* Narration words of 1, 29 and 30 characters: 29 + 1 + 30 fills a line of 60
\* exactly, 30 + 1 + 30 overflows it.
EstWords == {<<"a">>, Rep("b", 29), Rep("c", 30)}

WordLists == UNION {[1..k -> EstWords] : k \in 0..MaxWords}

Texts == {Join(ws) : ws \in WordLists}
            \cup {<<" ">>, <<" ", "a", " ", " ", "a", " ">>}

\* Audio durations in seconds; a job may also meet an audio file of length 0.
Durations == {Rat(1, 10), RInt(2)}

JobDurations == Durations \cup {RInt(0)}

\* Whisper's words, with and without the leading space it puts before a word.
RawWords == {<<" ", "h", "i">>, <<"h", "i">>, <<" ">> \o Rep("d", 61)}

Gaps == {RInt(0), Rat(1, 5)}

\* Transcripts of at most n words from time t0 on: each word starts at or
\* after the end of the one before and lasts 3/5 s.
RECURSIVE Transcripts(_, _)
Transcripts(n, t0) ==
    IF n = 0 THEN {<<>>}
    ELSE {<<>>} \cup
         UNION {
            LET s == RAdd(t0, gap)
                e == RAdd(s, Rat(3, 5))
            IN  {<<[word |-> raw, start |-> s, end |-> e]>> \o rest :
                    rest \in Transcripts(n - 1, e)} :
            <<raw, gap>> \in RawWords \X Gaps}

\* The instants the per-frame functions are asked about.
Times == {Rat(k, 5) : k \in 0..MaxTick}

\* Narrations for the animator: up to MaxNarr words that carry keywords (or
\* not), each followed by 0, 6 or 9 filler words, after no or ten filler
\* words, so that the 10-word windows hold one or several of them and the
\* last window may be a partial one.
NarrWords == {<<"c", "a", "l", "l">>, <<"l", "o", "o", "p">>, <<"f", "o", "r">>,
              <<"L", "I", "F", "O">>, <<"t", "h", "e">>}

Padded(ws, pad) ==
    [k \in 1..(Len(ws) * (pad + 1)) |->
        IF (k - 1) % (pad + 1) = 0 THEN ws[(k - 1) \div (pad + 1) + 1] ELSE <<"x">>]

\* n filler words.
Filler(n) == [k \in 1..n |-> <<"x">>]

Narrations ==
    {Join(Filler(lead) \o Padded(ws, pad)) :
        ws \in UNION {[1..k -> NarrWords] : k \in 0..MaxNarr},
        pad \in {0, 6, 9}, lead \in {0, 10}}

AnimDurations == {RInt(2), RInt(4)}

AnimTimes == {RInt(k) : k \in 0..MaxAnimTick}

anim_width == 1280

NoFrame == [time |-> RInt(-1), drawn |-> <<>>]

Idle ==
    /\ word_timings = <<>>
    /\ lines = <<>>
    /\ frame = NoFrame
    /\ total_frames = 0
    /\ error = ""
    /\ triggers = <<>>
    /\ overlays = [time |-> RInt(-1), pasted |-> <<>>]
    /\ pc = "start"

NoPremium ==
    /\ particles = <<>>
    /\ premium_frames = 0
    /\ job = 0
    /\ video = <<>>
    /\ previous = <<>>

\* The machine before any render job: no temp_frames directory, no
\* temp_video.mp4, no directory of mkdtemp, no frame list file.
NoFiles ==
    [temp_dir |-> FALSE, temp_frames |-> <<>>, temp_video |-> FALSE,
     mkdtemp |-> <<>>, frame_lists |-> 0]

NoAssets == [avatar_file |-> "missing", font_present |-> FALSE]

Unbuilt == [error |-> "", avatar_img |-> "none", font |-> "none"]

NoJob ==
    /\ entry = "direct"
    /\ kind = "typewriter"
    /\ rate = MaxRate
    /\ assets = NoAssets
    /\ resolved = Unbuilt
    /\ written = 0
    /\ frame_times = <<>>
    /\ encoder_calls = <<>>
    /\ outcome = ""
    /\ failed = {}
    /\ overlay_times = <<>>

NoRender ==
    /\ NoJob
    /\ fs = NoFiles

NoAvatarFrame ==
    [time |-> RInt(-1), total_lines_to_show |-> 0,
     karaoke |-> [all_words |-> <<>>, current_word_position |-> 0, drawn |-> <<>>]]

\* No AvatarVideoRenderer frame has been asked for.
NoAvatar ==
    /\ code_lines = 1
    /\ font_width = 0
    /\ speech_segments = <<>>
    /\ avatar_frame = NoAvatarFrame

\* create_batch_videos has not been called.
NoBatch ==
    /\ code_snippets = <<>>
    /\ results = <<>>
    /\ batch_pos = 0

\* The entry points and the renderer each of them uses: a renderer's own
\* method, VideoRenderer.create_video (animated) and
\* VideoRenderer.create_typewriter_video.
EntryKinds ==
    {<<"direct", "typewriter">>, <<"direct", "animated">>, <<"direct", "avatar">>,
     <<"create_video", "avatar">>, <<"create_typewriter_video", "typewriter">>}

\* The avatar file and the system font of the machine.
Assets == [avatar_file : {"ok", "unreadable", "missing"}, font_present : BOOLEAN]

\* Narrations of a render job: none, one of one character and one of five
\* (whose estimated timeline ends with the audio).
RenderTexts == {<<>>, <<"a">>, Rep("a", 5)}

RenderDurations == {RInt(0), Rat(1, 2), RInt(1)}

Rates == {MaxRate - 1, MaxRate}

InitWith(durations) ==
    /\ has_whisper \in BOOLEAN
    /\ audio_duration \in durations
    /\ IF has_whisper
       THEN /\ transcript \in Transcripts(MaxTWords, RInt(0))
            /\ text = Join([i \in 1..Len(transcript) |-> Strip(transcript[i].word)])
       ELSE /\ transcript = <<>>
            /\ text \in Texts
    /\ Idle
    /\ NoPremium
    /\ NoRender
    /\ NoAvatar
    /\ NoBatch

Init == InitWith(Durations)

InitJob == InitWith(JobDurations)

InitAnim ==
    /\ has_whisper = FALSE
    /\ transcript = <<>>
    /\ text \in Narrations
    /\ audio_duration \in AnimDurations
    /\ Idle
    /\ NoPremium
    /\ NoRender
    /\ NoAvatar
    /\ NoBatch

\* Trigger lists a caller hands to apply_animations_to_frame: n triggers of
\* one type, the first half starting at s1 and the rest at s2.  The type is a
\* key of animation_mappings, as analyze_narration writes it, or the name of
\* an animation, as create_animation_overlay reads it.
TriggerTypes == {"function", "function_call", "loop_spin"}

TriggerStarts == {RInt(0), RInt(1), RInt(3)}

TriggerList(n, type, s1, s2) ==
    [k \in 1..n |-> [type |-> type,
                     start_time |-> IF 2 * k <= n THEN s1 ELSE s2,
                     duration |-> animation_duration,
                     text |-> <<>>,
                     keyword |-> <<>>]]

TriggerLists ==
    {TriggerList(n, type, s1, s2) :
        n \in 1..MaxTriggers, type \in TriggerTypes,
        s1 \in TriggerStarts, s2 \in TriggerStarts}

\* A SemanticAnimator whose apply_animations_to_frame is called with a
\* trigger list of the caller's.
InitSlots ==
    /\ has_whisper = FALSE
    /\ transcript = <<>>
    /\ text = <<>>
    /\ audio_duration \in AnimDurations
    /\ word_timings = <<>>
    /\ lines = <<>>
    /\ frame = NoFrame
    /\ total_frames = 0
    /\ error = ""
    /\ triggers \in TriggerLists
    /\ overlays = [time |-> RInt(-1), pasted |-> <<>>]
    /\ pc = "analyzed"
    /\ NoPremium
    /\ NoRender
    /\ NoAvatar
    /\ NoBatch

\* Narrations for the avatar renderer: the first n of the words "aaaaaaaaa",
\* "bbbbbbbbb", ..., so that two or five of them fill a caption line; none;
\* and one of white space only.
AvatarNarrations ==
    {Join([k \in 1..n |-> Rep(LowerCase[k], 9)]) : n \in 0..MaxAvatarWords}
        \cup {<<" ">>}

AvatarDurations == {RInt(1), RInt(4), RInt(10)}

\* Character widths of the caption font: ImageFont.load_default and a
\* 24-point system font.
FontWidths == {6, 13}

CodeLineCounts == {1, MaxCodeLines}

\* Frame times: progress * duration lies in [0, duration].
AvatarTimes == {Rat(k, 2) : k \in 0..MaxAvatarTick}

\* An AvatarVideoRenderer about to build the frames of a narration.
InitAvatar ==
    /\ has_whisper = FALSE
    /\ transcript = <<>>
    /\ text \in AvatarNarrations
    /\ audio_duration \in AvatarDurations
    /\ word_timings = <<>>
    /\ lines = <<>>
    /\ frame = NoFrame
    /\ total_frames = 0
    /\ error = ""
    /\ triggers = <<>>
    /\ overlays = [time |-> RInt(-1), pasted |-> <<>>]
    /\ pc = "narration"
    /\ NoPremium
    /\ NoRender
    /\ code_lines \in CodeLineCounts
    /\ font_width \in FontWidths
    /\ speech_segments = <<>>
    /\ avatar_frame = NoAvatarFrame
    /\ NoBatch

\* The names of a batch's snippets; "" makes create_video use its default
\* output name.
SnippetNames == {"", "fib", "sort", "code_explanation_python"}

\* The stage of create_video that raises for a snippet, if one does.
FailureStages == {"none", "explain", "tts", "render"}

\* The code_snippets dictionaries of at most MaxSnippets entries, in
\* insertion order, each snippet with how its processing will end.
SnippetDicts ==
    UNION {
        {d \in [1..n -> [name : SnippetNames, fails : FailureStages]] :
            \A i, j \in 1..n : i # j => d[i].name # d[j].name}
        : n \in 0..MaxSnippets}

WithCode(d) ==
    [i \in DOMAIN d |-> [name |-> d[i].name, code |-> <<"code", i>>,
                         fails |-> d[i].fails]]

\* Code2Vid.create_batch_videos has been called.
InitBatch ==
    /\ has_whisper = FALSE
    /\ transcript = <<>>
    /\ text = <<>>
    /\ audio_duration = RInt(0)
    /\ word_timings = <<>>
    /\ lines = <<>>
    /\ frame = NoFrame
    /\ total_frames = 0
    /\ error = ""
    /\ triggers = <<>>
    /\ overlays = [time |-> RInt(-1), pasted |-> <<>>]
    /\ pc = "batch"
    /\ NoPremium
    /\ NoRender
    /\ NoAvatar
    /\ \E d \in SnippetDicts : code_snippets = WithCode(d)
    /\ results = <<>>
    /\ batch_pos = 0

\* What _init_particles draws for one particle: random.randint for the
\* position, random.uniform(-0.5, 0.5) for the velocity.
RandomParticles ==
    [x : {RInt(0), RInt(960), RInt(premium_width)},
     y : {RInt(0), RInt(premium_height)},
     vx : {Rat(-1, 4), Rat(1, 4)},
     vy : {Rat(-1, 4), Rat(1, 4)}]

\* A renderer as its constructor leaves it; MaxParticles stands for the
\* particle_count of 50.  Every job renders the same premium_frames frames.
InitPremium ==
    /\ has_whisper = FALSE
    /\ transcript = <<>>
    /\ text = <<>>
    /\ audio_duration = RInt(0)
    /\ Idle
    /\ particles \in [1..MaxParticles -> RandomParticles]
    /\ premium_frames \in 1..MaxFrames
    /\ job = 0
    /\ video = <<>>
    /\ previous = <<>>
    /\ NoRender
    /\ NoAvatar
    /\ NoBatch

\* A machine on which no render job has run yet.
InitRender ==
    /\ has_whisper = FALSE
    /\ transcript = <<>>
    /\ text = <<>>
    /\ audio_duration = RInt(0)
    /\ word_timings = <<>>
    /\ lines = <<>>
    /\ frame = NoFrame
    /\ total_frames = 0
    /\ error = ""
    /\ triggers = <<>>
    /\ overlays = [time |-> RInt(-1), pasted |-> <<>>]
    /\ pc = "idle"
    /\ NoPremium
    /\ NoRender
    /\ NoAvatar
    /\ NoBatch

\* --------------------------------------------------------------- actions

DoExtractWordTimings ==
    /\ pc = "start"
    /\ word_timings' = ExtractWordTimings(has_whisper, transcript, text, audio_duration)
    /\ pc' = "timed"
    /\ UNCHANGED <<inputs, lines, frame, total_frames, error, animator, premium, render, avatar, batch>>

DoOrganizeTextIntoLines ==
    /\ pc = "timed"
    /\ lines' = OrganizeTextIntoLines(word_timings)
    /\ pc' = "lined"
    /\ UNCHANGED <<inputs, word_timings, frame, total_frames, error, animator, premium, render, avatar, batch>>

\* render_frame at any instant of the frame grid.
DoRenderFrame ==
    /\ pc = "lined"
    /\ \E t \in Times : frame' = RenderFrame(t, lines)
    /\ UNCHANGED <<inputs, pc, word_timings, lines, total_frames, error, animator, premium, render, avatar, batch>>

\* create_video after organize_text_into_lines: the frame count, or the
\* ValueError of max() over no lines, which create_video does not catch.
DoCalculateVideoDuration ==
    /\ pc = "lined"
    /\ IF lines = <<>>
       THEN /\ pc' = "raised"
            /\ error' = "ValueError"
            /\ UNCHANGED total_frames
       ELSE /\ pc' = "planned"
            /\ total_frames' = TotalFrames(lines)
            /\ UNCHANGED error
    /\ UNCHANGED <<inputs, word_timings, lines, frame, animator, premium, render, avatar, batch>>

DoAnalyzeNarration ==
    /\ pc = "start"
    /\ triggers' = AnalyzeNarration(text, audio_duration)
    /\ pc' = "analyzed"
    /\ UNCHANGED <<inputs, typewriter, overlays, premium, render, avatar, batch>>

\* apply_animations_to_frame at any instant of the animator's grid.
DoApplyAnimationsToFrame ==
    /\ pc = "analyzed"
    /\ \E t \in AnimTimes : overlays' = ApplyAnimationsToFrame(triggers, t, anim_width)
    /\ UNCHANGED <<inputs, pc, typewriter, triggers, premium, render, avatar, batch>>

\* create_animated_video is called on the renderer: a job begins.  The
\* particles are those the jobs before left.
DoCreateAnimatedVideo ==
    /\ job < MaxJobs
    /\ job > 0 => Len(video) = premium_frames
    /\ job' = job + 1
    /\ previous' = video
    /\ video' = <<>>
    /\ UNCHANGED <<inputs, pc, typewriter, animator, particles, premium_frames, render, avatar, batch>>

\* One turn of _generate_premium_frames' loop: frame frame_num is made, which
\* moves the particles, and saved.
DoCreatePremiumFrame ==
    /\ job > 0
    /\ Len(video) < premium_frames
    /\ LET frame_num == Len(video)
       IN  /\ video' = Append(video, CreatePremiumFrame(particles, frame_num))
           /\ particles' = DrawParticlesState(particles)
    /\ UNCHANGED <<inputs, pc, typewriter, animator, premium_frames, job, previous, render, avatar, batch>>

\* An exception leaves the renderer: the caller gets it, or the entry point
\* of VideoRenderer catches it, prints it and goes on with its fallback.
Raise(stage, exception) ==
    /\ failed' = failed \cup {stage}
    /\ error' = exception
    /\ IF HasFallback(entry)
       THEN pc' = "fallback" /\ UNCHANGED outcome
       ELSE pc' = "done" /\ outcome' = "raised"

\* A caller starts a render job through one of the entry points.
DoBeginJob ==
    /\ pc \in {"idle", "done"}
    /\ job < MaxRenderJobs
    /\ job' = job + 1
    /\ \E ek \in EntryKinds, a \in Assets, tx \in RenderTexts,
          d \in RenderDurations, r \in Rates :
          /\ entry' = ek[1]
          /\ kind' = ek[2]
          /\ assets' = a
          /\ text' = IF ek[2] = "typewriter" THEN tx ELSE <<>>
          /\ audio_duration' = d
          /\ rate' = r
    /\ pc' = "construct"
    /\ word_timings' = <<>>
    /\ lines' = <<>>
    /\ frame' = NoFrame
    /\ total_frames' = 0
    /\ error' = ""
    /\ resolved' = Unbuilt
    /\ written' = 0
    /\ frame_times' = <<>>
    /\ overlay_times' = <<>>
    /\ encoder_calls' = <<>>
    /\ outcome' = ""
    /\ failed' = {}
    /\ UNCHANGED <<has_whisper, transcript, animator, particles, premium_frames,
                   video, previous, fs, avatar, batch>>

\* The renderer's __init__.
DoConstruct ==
    /\ pc = "construct"
    /\ resolved' = ConstructRenderer(kind, assets)
    /\ IF resolved'.error # ""
       THEN Raise("construct", resolved'.error)
       ELSE pc' = "plan" /\ UNCHANGED <<error, outcome, failed>>
    /\ UNCHANGED <<inputs, word_timings, lines, frame, total_frames, animator,
                   premium, entry, kind, rate, assets, fs, written, frame_times,
                   encoder_calls, overlay_times, avatar, batch>>

\* create_video / create_animated_video up to the frame loop: the timings
\* and the lines (typewriter), the frame count, the frames directory.
DoPlanFrames ==
    /\ pc = "plan"
    /\ IF kind = "typewriter"
       THEN /\ word_timings' = ExtractWordTimings(has_whisper, transcript, text,
                                                  audio_duration)
            /\ lines' = OrganizeTextIntoLines(word_timings')
            /\ IF lines' = <<>>
               THEN /\ Raise("timing", "ValueError")
                    /\ UNCHANGED <<total_frames, fs>>
               ELSE /\ total_frames' =
                          FrameCount(RAdd(SeqMaxEnd(lines'), fade_duration), rate)
                    /\ fs' = [fs EXCEPT !.temp_dir = TRUE]
                    /\ pc' = "frames"
                    /\ UNCHANGED <<error, outcome, failed>>
       ELSE IF kind = "animated"
       THEN /\ total_frames' = FrameCount(audio_duration, rate)
            /\ fs' = [fs EXCEPT !.temp_dir = TRUE]
            /\ pc' = "frames"
            /\ UNCHANGED <<word_timings, lines, error, outcome, failed>>
       ELSE /\ total_frames' = AvatarFrameCount(audio_duration, rate)
            /\ IF total_frames' <= 1
               THEN Raise("frames", "ZeroDivisionError")
               ELSE pc' = "frames" /\ UNCHANGED <<error, outcome, failed>>
            /\ UNCHANGED <<word_timings, lines, fs>>
    /\ UNCHANGED <<inputs, frame, animator, premium, entry, kind, rate, assets,
                   resolved, written, frame_times, encoder_calls, overlay_times, avatar, batch>>

\* One turn of the frame loop: the frame is built for its time and saved.
\* The avatar renderer pastes the frame's animation overlay in between.
\* The avatar renderer saves into a directory of tempfile.mkdtemp, made
\* before its first frame is saved.
DoSaveFrame ==
    /\ pc = "frames"
    /\ written < total_frames
    /\ LET time == FrameTime(kind, written, rate, audio_duration, total_frames)
       IN  /\ frame_times' = Append(frame_times, time)
           /\ frame' = IF kind = "typewriter" THEN RenderFrame(time, lines)
                       ELSE frame
    /\ overlay_times' =
          IF kind = "avatar"
          THEN Append(overlay_times,
                      OverlayTime(written, audio_duration, total_frames))
          ELSE overlay_times
    /\ resolved' = FrameAssets(kind, assets, resolved)
    /\ fs' = IF kind = "avatar"
             THEN IF written = 0
                  THEN [fs EXCEPT !.mkdtemp = Append(@, [job |-> job, frames |-> 1])]
                  ELSE [fs EXCEPT !.mkdtemp[Len(fs.mkdtemp)].frames = written + 1]
             ELSE [fs EXCEPT !.temp_frames = SaveFrame(@, written, job)]
    /\ written' = written + 1
    /\ UNCHANGED <<inputs, pc, word_timings, lines, total_frames, error, animator,
                   premium, entry, kind, rate, assets, encoder_calls, outcome,
                   failed, avatar, batch>>

\* The frames this job hands to ffmpeg: the pattern over temp_frames, or the
\* avatar renderer's frame_paths.
EncoderInput ==
    IF kind = "avatar"
    THEN [k \in 1..written |-> [index |-> k - 1, job |-> job]]
    ELSE FramePattern(fs.temp_frames)

\* subprocess.run(ffmpeg ..., check=True) on the frames, after the frame
\* loop.  ffmpeg cannot succeed without an input frame.
DoRunEncoder ==
    /\ pc = "frames"
    /\ written = total_frames
    /\ \E ok \in BOOLEAN :
          /\ ok => EncoderInput # <<>>
          /\ encoder_calls' = Append(encoder_calls,
                [stage |-> "frames", input |-> EncoderInput,
                 written |-> written, ok |-> ok])
          /\ IF ok
             THEN /\ pc' = IF HasMuxStep(kind) THEN "mux" ELSE "cleanup"
                  /\ fs' = IF HasMuxStep(kind) THEN [fs EXCEPT !.temp_video = TRUE]
                           ELSE fs
                  /\ UNCHANGED <<error, outcome, failed>>
             ELSE /\ Raise("encoder", EncoderError(kind))
                  /\ fs' = IF kind = "avatar"
                           THEN [fs EXCEPT !.frame_lists = @ + 1]
                           ELSE fs
    /\ UNCHANGED <<inputs, word_timings, lines, frame, total_frames, animator,
                   premium, entry, kind, rate, assets, resolved, written,
                   frame_times, overlay_times, avatar, batch>>

\* The second ffmpeg run of _create_video_from_frames: temp_video.mp4 and the
\* audio into the output file.
DoRunMux ==
    /\ pc = "mux"
    /\ \E ok \in BOOLEAN :
          /\ encoder_calls' = Append(encoder_calls,
                [stage |-> "mux", input |-> <<>>, written |-> written, ok |-> ok])
          /\ IF ok
             THEN /\ pc' = "cleanup"
                  /\ fs' = [fs EXCEPT !.temp_video = FALSE]
                  /\ UNCHANGED <<error, outcome, failed>>
             ELSE /\ Raise("encoder", EncoderError(kind))
                  /\ UNCHANGED fs
    /\ UNCHANGED <<inputs, word_timings, lines, frame, total_frames, animator,
                   premium, entry, kind, rate, assets, resolved, written,
                   frame_times, overlay_times, avatar, batch>>

\* After the encoder: shutil.rmtree("temp_frames"), _cleanup_frames, or the
\* removal of frame_paths and os.rmdir(frame_dir); then the output path is
\* returned.
DoCleanUp ==
    /\ pc = "cleanup"
    /\ fs' = IF kind = "avatar"
             THEN [fs EXCEPT !.mkdtemp = SubSeq(@, 1, Len(@) - 1)]
             ELSE [fs EXCEPT !.temp_frames = <<>>, !.temp_dir = FALSE]
    /\ outcome' = "returned"
    /\ pc' = "done"
    /\ UNCHANGED <<inputs, word_timings, lines, frame, total_frames, error,
                   animator, premium, entry, kind, rate, assets, resolved,
                   written, frame_times, encoder_calls, failed, overlay_times, avatar, batch>>

\* The except branch of VideoRenderer's entry point: the static rendering
\* of create_video, create_animated_code_video for create_typewriter_video;
\* both end in moviepy's write_videofile.
DoFallback ==
    /\ pc = "fallback"
    /\ \E ok \in BOOLEAN :
          /\ outcome' = FallbackOutcome(ok)
          /\ failed' = IF ok THEN failed ELSE failed \cup {"fallback"}
          /\ error' = IF ok THEN error ELSE "Exception"
    /\ pc' = "done"
    /\ UNCHANGED <<inputs, word_timings, lines, frame, total_frames, animator,
                   premium, entry, kind, rate, assets, resolved, fs, written,
                   frame_times, encoder_calls, overlay_times, avatar, batch>>

\* _create_avatar_frames: the narration is split into speech segments.
DoSplitNarrationIntoSegments ==
    /\ pc = "narration"
    /\ speech_segments' = SplitNarrationIntoSegments(text, audio_duration)
    /\ pc' = "segmented"
    /\ UNCHANGED <<inputs, typewriter, animator, premium, render, code_lines,
                   font_width, avatar_frame, batch>>

\* _create_avatar_frame at any instant of the grid within the audio.
DoCreateAvatarFrame ==
    /\ pc = "segmented"
    /\ \E t \in AvatarTimes :
          /\ RLe(t, audio_duration)
          /\ avatar_frame' = CreateAvatarFrame(code_lines, speech_segments, t,
                                               avatar_width, font_width)
    /\ UNCHANGED <<inputs, pc, typewriter, animator, premium, render, code_lines,
                   font_width, speech_segments, batch>>

\* One turn of create_batch_videos' loop: create_video for the next snippet,
\* its result or its error stored under the snippet's name.
DoBatchStep ==
    /\ pc = "batch"
    /\ batch_pos < Len(code_snippets)
    /\ results' = BatchStep(results, code_snippets[batch_pos + 1])
    /\ batch_pos' = batch_pos + 1
    /\ UNCHANGED <<inputs, pc, typewriter, animator, premium, render, avatar,
                   code_snippets>>

\* The loop is over: return results.
DoBatchReturn ==
    /\ pc = "batch"
    /\ batch_pos = Len(code_snippets)
    /\ pc' = "returned"
    /\ UNCHANGED <<inputs, typewriter, animator, premium, render, avatar, batch>>

Next ==
    \/ DoExtractWordTimings
    \/ DoOrganizeTextIntoLines
    \/ DoRenderFrame

Spec == Init /\ [][Next]_vars

\* create_video as a job: the timings, the lines, then the frame count.
NextJob ==
    \/ DoExtractWordTimings
    \/ DoOrganizeTextIntoLines
    \/ DoCalculateVideoDuration

SpecJob == InitJob /\ [][NextJob]_vars

\* The animator: the triggers of a narration, then overlays at any instant.
NextAnim ==
    \/ DoAnalyzeNarration
    \/ DoApplyAnimationsToFrame

SpecAnim == InitAnim /\ [][NextAnim]_vars

\* The premium renderer: jobs on one renderer, each rendering its frames in
\* order.
NextPremium ==
    \/ DoCreateAnimatedVideo
    \/ DoCreatePremiumFrame

SpecPremium == InitPremium /\ [][NextPremium]_vars

\* Render jobs, one after another on one machine, through any entry point.
NextRender ==
    \/ DoBeginJob
    \/ DoConstruct
    \/ DoPlanFrames
    \/ DoSaveFrame
    \/ DoRunEncoder
    \/ DoRunMux
    \/ DoCleanUp
    \/ DoFallback

SpecRender == InitRender /\ [][NextRender]_vars

\* apply_animations_to_frame on its own, at any instant of the grid.
NextSlots == DoApplyAnimationsToFrame

SpecSlots == InitSlots /\ [][NextSlots]_vars

\* The frames of the avatar renderer: the segments, then frames at any time.
NextAvatar ==
    \/ DoSplitNarrationIntoSegments
    \/ DoCreateAvatarFrame

SpecAvatar == InitAvatar /\ [][NextAvatar]_vars

\* create_batch_videos: the loop over the snippets, then the return.
NextBatch ==
    \/ DoBatchStep
    \/ DoBatchReturn

SpecBatch == InitBatch /\ [][NextBatch]_vars

\* --------------------------------------------------------------- claims

RECURSIVE ConcatWords(_)
ConcatWords(lns) ==
    IF lns = <<>> THEN <<>> ELSE Head(lns).words \o ConcatWords(Tail(lns))

\* C1: the lines of organize_text_into_lines, concatenated in order, are
\* exactly the input word timings in their order: no word is dropped,
\* duplicated or put on two lines.
C1_LinesPartitionWords ==
    pc = "lined" => ConcatWords(lines) = word_timings

C1_Witness ==
    /\ pc = "lined"
    /\ Len(lines) >= 2
    /\ \E i \in 1..Len(lines) : Len(lines[i].words) >= 2

\* C2: every line is within max_chars_per_line unless it is one word, and a
\* word longer than the budget stands alone on a line whose text is that
\* word, untruncated.
C2_LineWithinBudget ==
    pc = "lined" =>
        /\ \A i \in 1..Len(lines) :
              Len(lines[i].text) <= max_chars_per_line \/ Len(lines[i].words) = 1
        /\ \A k \in 1..Len(word_timings) :
              Len(word_timings[k].word) > max_chars_per_line =>
                 \E i \in 1..Len(lines) :
                    /\ lines[i].words = <<word_timings[k]>>
                    /\ lines[i].text = word_timings[k].word

C2_Witness ==
    /\ pc = "lined"
    /\ Len(lines) >= 2
    /\ \E i \in 1..Len(lines) :
          Len(lines[i].words) = 1 /\ Len(lines[i].text) > max_chars_per_line

\* C3: for a fixed line, get_typing_progress never decreases as time
\* increases, with the timings of either branch of extract_word_timings.
C3_TypingMonotone ==
    [][(pc = "lined" /\ RLe(RInt(0), frame.time) /\ RLe(frame.time, frame'.time)) =>
         \A m \in DOMAIN frame.drawn, n \in DOMAIN frame'.drawn :
            frame.drawn[m].index = frame'.drawn[n].index =>
               frame.drawn[m].typing_progress <= frame'.drawn[n].typing_progress]_vars

\* C7: without a transcript, for a non-empty text and a duration > 0 the last
\* word timing ends at the audio duration, and so does the last line.
C7_LastWordEndsAtDuration ==
    (/\ ~has_whisper
     /\ Split(text) # <<>>
     /\ RLt(RInt(0), audio_duration)) =>
        /\ pc = "timed" => word_timings[Len(word_timings)].end_time = audio_duration
        /\ pc = "lined" => lines[Len(lines)].end_time = audio_duration

\* C8: with an empty narration or a duration <= 0 the job goes on with exactly
\* one placeholder line; it does not end in an exception, with no line or
\* with several lines.
C8_PlaceholderLine ==
    (/\ ~has_whisper
     /\ (Split(text) = <<>> \/ RLe(audio_duration, RInt(0)))
     /\ pc \in {"planned", "raised"}) =>
        /\ pc = "planned"
        /\ error = ""
        /\ Len(lines) = 1

\* The lines get_visible_lines_at_time's tests let through at the frame's time.
InWindow == {i \in 1..Len(lines) : LineInWindow(lines[i], frame.time)}

Shown == {frame.drawn[n].index : n \in DOMAIN frame.drawn}

\* C9: get_visible_lines_at_time returns at most max_lines lines, in
\* chronological order, and when more are inside their window it drops the
\* oldest, so that the newest max_lines of them are returned.
C9_OldestDropped ==
    (pc = "lined" /\ RLe(RInt(0), frame.time)) =>
        /\ Len(frame.drawn) <= max_lines
        /\ \A m, n \in DOMAIN frame.drawn :
              m < n => frame.drawn[m].index < frame.drawn[n].index
        /\ Shown = {i \in InWindow :
                       Cardinality({j \in InWindow : j > i}) < max_lines}

\* The 0-based character positions of word k of a line in the line's text.
RECURSIVE WordOffset(_, _)
WordOffset(words, k) ==
    IF k = 1 THEN 0 ELSE WordOffset(words, k - 1) + Len(words[k - 1].word) + 1

WordSpan(words, k) ==
    {WordOffset(words, k) + c : c \in 0..(Len(words[k].word) - 1)}

NonOverlapping(words) ==
    \A k \in 1..(Len(words) - 1) : RLe(words[k].end_time, words[k + 1].start_time)

SeqRange(sq) == {sq[k] : k \in DOMAIN sq}

\* C10: for a line of non-overlapping words, get_bold_positions marks the
\* characters of at most one word, and at an instant two adjacent words share
\* only the one that starts first.
C10_OneBoldWord ==
    (pc = "lined" /\ RLe(RInt(0), frame.time)) =>
        \A n \in DOMAIN frame.drawn :
           LET words == lines[frame.drawn[n].index].words
               bold == SeqRange(frame.drawn[n].bold_positions)
               spoken == {k \in 1..Len(words) :
                            /\ RLe(words[k].start_time, frame.time)
                            /\ RLe(frame.time, words[k].end_time)}
           IN  NonOverlapping(words) =>
                  /\ Cardinality({k \in 1..Len(words) :
                                     bold \cap WordSpan(words, k) # {}}) <= 1
                  /\ spoken # {} => bold = WordSpan(words, SetMin(spoken))

\* The window a trigger came from: its 0-based index among the word groups.
Windows == WordGroups(Split(text))

SegmentDuration ==
    RDiv(audio_duration, RInt(Max(1, Len(Split(text)) \div 10)))

\* C4: apply_animations_to_frame pastes an overlay for a trigger exactly
\* when start_time <= t <= start_time + duration.
C4_ActiveIffInWindow ==
    (pc = "analyzed" /\ RLe(RInt(0), overlays.time)) =>
        \A i \in 1..Len(triggers) :
           (\E n \in DOMAIN overlays.pasted : overlays.pasted[n].trigger = i - 1)
              <=> (/\ RLe(triggers[i].start_time, overlays.time)
                   /\ RLe(overlays.time,
                          RAdd(triggers[i].start_time, triggers[i].duration)))

\* C5: analyze_narration emits at most one trigger per 10-word window, that
\* of the first matching kind, so there are never more triggers than windows.
C5_OneTriggerPerWindow ==
    pc = "analyzed" =>
        /\ Len(triggers) <= Len(Windows)
        /\ \A g \in 1..Len(Windows) :
              Cardinality({i \in 1..Len(triggers) :
                              /\ triggers[i].text = Join(Windows[g])
                              /\ triggers[i].start_time =
                                    RMul(RInt(g - 1), SegmentDuration)}) <= 1

\* C6: what a frame shows depends on the job's inputs and its time only, not
\* on the frames rendered before it: the same frame of a job with the same
\* inputs on the same renderer is the same.
C6_FrameDependsOnTimeOnly ==
    \A k \in 1..Min(Len(video), Len(previous)) : video[k] = previous[k]

\* The ffmpeg runs of the job that read its frames.
FrameRuns == {c \in DOMAIN encoder_calls : encoder_calls[c].stage = "frames"}

\* A run of ffmpeg got the frames from index 0 on, in increasing order and
\* without a gap, after every frame of the job was written.
InOrderAfterAllFrames(call) ==
    /\ \A k \in DOMAIN call.input : call.input[k].index = k - 1
    /\ call.written = total_frames

\* The renderer itself returned the output path.
RendererReturned == pc = "done" /\ outcome = "returned" /\ failed = {}

C12_NoFramesLeftBehind ==
    pc = "done" =>
        /\ fs.temp_frames = <<>>
        /\ ~fs.temp_dir
        /\ fs.mkdtemp = <<>>

\* C13: a failure of the encoder in a job begun through VideoRenderer's
\* create_video or create_typewriter_video is fatal for the job: the entry
\* point raises, it does not return an output path.
C13_EncoderFailureIsFatal ==
    (pc = "done" /\ HasFallback(entry) /\ "encoder" \in failed) =>
        outcome = "raised"

\* C13 as amended: the entry point returns an output path exactly when the
\* renderer's own ffmpeg runs all succeeded or, after any failure of the
\* renderer, the write_videofile of its fallback rendering succeeded; when
\* the fallback fails as well it raises an Exception.
C13_ReturnsOnlyAfterAnEncoderSucceeded ==
    (pc = "done" /\ HasFallback(entry)) =>
        /\ outcome = "returned" <=> "fallback" \notin failed
        /\ (outcome = "returned" /\ failed = {}) =>
              /\ encoder_calls # <<>>
              /\ \A c \in DOMAIN encoder_calls : encoder_calls[c].ok
        /\ outcome = "raised" => error = "Exception"

\* create_video returned the output path of its static rendering after the
\* avatar renderer's ffmpeg run had failed.
C13_Witness ==
    /\ pc = "done"
    /\ entry = "create_video"
    /\ "encoder" \in failed
    /\ outcome = "returned"

\* The job has computed its frame count.
FramesPlanned ==
    /\ pc \in {"frames", "mux", "cleanup", "fallback", "done"}
    /\ failed \cap {"construct", "timing"} = {}

\* C14: a render job for audio of length duration at rate fps makes exactly
\* ceil(duration * fps) frames, and frame k is built for the time k / fps.
C14_CeilFramesAtKOverFps ==
    (FramesPlanned /\ kind \in {"typewriter", "animated"}) =>
        /\ total_frames = RCeil(RMul(audio_duration, RInt(rate)))
        /\ \A k \in DOMAIN frame_times : frame_times[k] = Rat(k - 1, rate)
        /\ encoder_calls # <<>> => Len(frame_times) = total_frames

\* C15: analyze_narration makes ceil(wordCount / 10) windows and gives window
\* i the start time i * duration / numWindows, so every trigger starts
\* strictly before the duration.
C15_WindowStartsInsideAudio ==
    pc = "analyzed" =>
        \A i \in 1..Len(triggers) :
           /\ \E g \in 1..Len(Windows) :
                 /\ triggers[i].text = Join(Windows[g])
                 /\ triggers[i].start_time =
                       RMul(RInt(g - 1), RDiv(audio_duration, RInt(Len(Windows))))
           /\ RLt(triggers[i].start_time, audio_duration)

\* C16: for non-overlapping word timings, every line starts when its first
\* word starts and ends when its last word ends, also for a transcript that
\* starts after 0 or has gaps between its words.
C16_LineSpansItsWords ==
    (pc = "lined" /\ NonOverlapping(word_timings)) =>
        \A i \in 1..Len(lines) :
           /\ lines[i].start_time = lines[i].words[1].start_time
           /\ lines[i].end_time = lines[i].words[Len(lines[i].words)].end_time

\* C17: with a transcript, extract_word_timings returns the transcript's
\* words with their start and end, except that an end after the audio
\* duration is clamped to the duration: no returned word ends after the
\* audio.
C17_TranscriptClampedToDuration ==
    (has_whisper /\ pc \in {"timed", "lined"}) =>
        /\ Len(word_timings) = Len(transcript)
        /\ \A k \in 1..Len(word_timings) :
              /\ word_timings[k].start_time = transcript[k].start
              /\ word_timings[k].end_time =
                    (IF RGt(transcript[k].end, audio_duration)
                     THEN audio_duration ELSE transcript[k].end)
              /\ RLe(word_timings[k].end_time, audio_duration)

\* C18: every (line, fade_progress) pair get_visible_lines_at_time returns
\* has start - fade_duration <= t < end + fade_duration and a progress in
\* [0, 1]: (t - (start - fade)) / fade before the start, 1 from start to
\* end, 1 - (t - end) / fade after the end, and never a trailing progress
\* <= 0.
C18_FadeWithinWindow ==
    (pc = "lined" /\ RLe(RInt(0), frame.time)) =>
        \A n \in DOMAIN frame.drawn :
           LET line == lines[frame.drawn[n].index]
               t == frame.time
               p == frame.drawn[n].fade_progress
           IN  /\ RLe(RSub(line.start_time, fade_duration), t)
               /\ RLt(t, RAdd(line.end_time, fade_duration))
               /\ RLe(RInt(0), p) /\ RLe(p, RInt(1))
               /\ RLt(t, line.start_time) =>
                     RMul(p, fade_duration) =
                        RSub(RAdd(t, fade_duration), line.start_time)
               /\ (RLe(line.start_time, t) /\ RLe(t, line.end_time)) => p = RInt(1)
               /\ RGt(t, line.end_time) =>
                     /\ RMul(RSub(RInt(1), p), fade_duration) = RSub(t, line.end_time)
                     /\ RGt(p, RInt(0))

\* One frame shows a line that is fading in and a line that is fading out.
C18_Witness ==
    /\ pc = "lined"
    /\ \E m, n \in DOMAIN frame.drawn :
          /\ RLt(frame.time, lines[frame.drawn[m].index].start_time)
          /\ RLt(RInt(0), frame.drawn[m].fade_progress)
          /\ RGt(frame.time, lines[frame.drawn[n].index].end_time)
          /\ RLt(frame.drawn[n].fade_progress, RInt(1))

\* C19: when the avatar image or the font cannot be loaded, the renderer's
\* construction goes down a fallback chain that ends in a built-in default
\* (the placeholder or drawn avatar, ImageFont.load_default, both always
\* there), so it never fails, and a missing asset is replaced by the default.
C19_AssetFallbackToDefault ==
    pc \notin {"idle", "construct"} =>
        /\ "construct" \notin failed
        /\ pc \in {"mux", "cleanup"} =>
              /\ resolved.error = ""
              /\ (kind # "animated" /\ assets.avatar_file # "ok") =>
                    resolved.avatar_img \in {"placeholder", "emoji"}
              /\ ~assets.font_present => resolved.font = "default"

C23_EstimatedTimings ==
    (/\ ~has_whisper
     /\ pc \in {"timed", "lined"}
     /\ text # <<>>
     /\ RLt(RInt(0), audio_duration)) =>
        LET words == Split(text)
            wt == word_timings
            n == Len(wt)
        IN  /\ n = Len(words)
            /\ \A i \in 1..n : wt[i].word = words[i]
            /\ n > 0 => wt[1].start_time = RInt(0)
            /\ \A i \in 1..(n - 1) : wt[i + 1].start_time = wt[i].end_time
            /\ \A i, j \in 1..n :
                  RMul(RSub(wt[i].end_time, wt[i].start_time), RInt(Len(wt[j].word)))
                     = RMul(RSub(wt[j].end_time, wt[j].start_time),
                            RInt(Len(wt[i].word)))
            /\ \A i \in 1..n :
                  LET cp == wt[i].char_positions
                  IN  /\ Len(cp) = Len(wt[i].word)
                      /\ Len(cp) > 0
                      /\ cp[1] = wt[i].start_time
                      /\ \A k \in 1..(Len(cp) - 1) : RLt(cp[k], cp[k + 1])
                      /\ \A k \in 1..Len(cp) : RLt(cp[k], wt[i].end_time)

\* Estimated timings of several words of different lengths, after a text with
\* more than one space between words.
C23_Witness ==
    /\ ~has_whisper
    /\ pc = "timed"
    /\ Len(word_timings) >= 2
    /\ \E i, j \in 1..Len(word_timings) :
          Len(word_timings[i].word) < Len(word_timings[j].word)

\* C25: from the end of a line's last word on, get_typing_progress is the
\* length of the line's text, so render_frame draws the complete line, also a
\* line of several words separated by spaces.
C25_LineCompleteAfterLastWord ==
    pc = "lined" =>
        \A n \in DOMAIN frame.drawn :
            LET line == lines[frame.drawn[n].index]
            IN  RGe(frame.time, line.words[Len(line.words)].end_time) =>
                   /\ frame.drawn[n].typing_progress = Len(line.text)
                   /\ frame.drawn[n].display_text = line.text

\* C26: the frame files the encoder reads for a render job are exactly the
\* frames that job wrote; frames another job left or is writing in
\* "temp_frames" are never part of the job's video.
C26_EncoderReadsOwnFrames ==
    \A c \in DOMAIN encoder_calls :
        encoder_calls[c].stage = "frames" =>
            /\ Len(encoder_calls[c].input) = encoder_calls[c].written
            /\ \A k \in DOMAIN encoder_calls[c].input :
                  encoder_calls[c].input[k].job = job

\* C28: for every audio duration > 0 the frame loop of the avatar renderer
\* (and of the renderers with the same loop) ends without an arithmetic
\* error, also when int(duration * fps) is 0 or 1.
C28_NoDivisionByZero ==
    (kind = "avatar" /\ RLt(RInt(0), audio_duration)) =>
        /\ "frames" \notin failed
        /\ error # "ZeroDivisionError"

\* C27: in AvatarVideoRenderer.create_animated_video the base frame and the
\* animation overlay of every frame i are built for the same time, the
\* instant i * frame_duration at which the frame is shown.
C27_BaseAndOverlayAtSameTime ==
    kind = "avatar" =>
        /\ Len(overlay_times) = Len(frame_times)
        /\ \A k \in DOMAIN frame_times :
              /\ frame_times[k] = overlay_times[k]
              /\ frame_times[k] =
                    RMul(RInt(k - 1), RDiv(audio_duration, RInt(total_frames)))

\* The words of the segments' texts, in order.
RECURSIVE SegmentWords(_, _)
SegmentWords(segments, i) ==
    IF i > Len(segments) THEN <<>>
    ELSE Split(segments[i].text) \o SegmentWords(segments, i + 1)

\* C30: for a non-empty narration and a duration > 0 the segments start at
\* 0, each starts where the one before ends, the last ends no later than the
\* duration, their texts hold every word of the narration once and in order,
\* and when the 2.5 words/s estimate is more than 2 s off the duration the
\* segments fill the duration exactly.
C30_SegmentsCoverNarration ==
    (pc = "segmented" /\ text # <<>> /\ RLt(RInt(0), audio_duration)) =>
        LET segs == speech_segments
            n == Len(segs)
            estimated == RDiv(RInt(Len(Split(text))), Rat(5, 2))
        IN  /\ n > 0 => segs[1].start = RInt(0)
            /\ \A k \in 1..(n - 1) :
                  segs[k + 1].start = RAdd(segs[k].start, segs[k].duration)
            /\ n > 0 => RLe(RAdd(segs[n].start, segs[n].duration), audio_duration)
            /\ SegmentWords(segs, 1) = Split(text)
            /\ (n > 0 /\ RGt(RAbs(RSub(estimated, audio_duration)), RInt(2))) =>
                  RAdd(segs[n].start, segs[n].duration) = audio_duration

\* C29: the number of code lines the avatar renderer's code panel shows
\* (total_lines_to_show) never decreases as t goes from 0 to the duration:
\* a line once shown stays, also after the last speech segment has ended.
C29_CodeLinesNeverHidden ==
    [][(/\ pc = "segmented"
        /\ RLe(RInt(0), avatar_frame.time)
        /\ RLe(avatar_frame.time, avatar_frame'.time)) =>
          avatar_frame.total_lines_to_show <= avatar_frame'.total_lines_to_show]_vars

\* C24: in a frame drawn by _draw_karaoke_text at most one word of all the
\* lines drawn is bold as the current word, and it is the word whose place
\* among the collected words is current_word_position.
C24_OneCurrentWord ==
    (pc = "segmented" /\ RLe(RInt(0), avatar_frame.time)) =>
        LET drawn == avatar_frame.karaoke.drawn
        IN  /\ Cardinality({i \in DOMAIN drawn : drawn[i].bold}) <= 1
            /\ \A i \in DOMAIN drawn :
                  drawn[i].bold =>
                     drawn[i].place = avatar_frame.karaoke.current_word_position

\* C21: create_batch_videos returns a dictionary with exactly one entry per
\* snippet name; a snippet whose processing fails gets {"error": ...} under
\* its own name, and the failure neither stops the snippets after it from
\* being processed nor changes what the other snippets get.
C21_BatchIsolatesFailures ==
    /\ DOMAIN results = {code_snippets[i].name : i \in 1..batch_pos}
    /\ pc = "returned" => batch_pos = Len(code_snippets)
    /\ \A i \in 1..batch_pos :
          LET snippet == code_snippets[i]
              entry_i == results[snippet.name]
          IN  IF snippet.fails = "none"
              THEN /\ DOMAIN entry_i =
                         {"explanation", "audio", "video", "title", "duration"}
                   /\ entry_i.video =
                         <<"output", OutputName(snippet.name), "_simple.mp4">>
                   /\ entry_i.title = <<"title", snippet.code>>
              ELSE DOMAIN entry_i = {"error"}

\* A batch has returned in which a snippet failed and a later one succeeded.
C21_Witness ==
    /\ pc = "returned"
    /\ \E i, j \in 1..Len(code_snippets) :
          /\ i < j
          /\ code_snippets[i].fails # "none"
          /\ code_snippets[j].fails = "none"
          /\ "video" \in DOMAIN results[code_snippets[j].name]

====
